---- MODULE Spec2Model ----
(***************************************************************************)
(* Model of script.py: a command-line helper that stages, commits and      *)
(* pushes the current branch and prints the pull-request URL.              *)
(*                                                                         *)
(* Strings are TLA+ strings; the Python str methods the script uses are    *)
(* defined below character by character.                                   *)
(***************************************************************************)
EXTENDS Integers, Sequences, FiniteSets, TLC

VARIABLES
    pc,             \* where main() is: "main", "menu", "review", then create_pr's "add",
                    \* "commit", "push", "url"; "done" returned, "raised" left by an exception
    params,         \* the click parameters main() was called with
    options,        \* GitConfig.options
    current_branch, \* main()'s local current_branch
    commands,       \* the git commands run so far, oldest first, with their outcome
    errors,         \* the error messages printed so far
    prompts,        \* how many prompts have been shown
    printed,        \* the last command line or URL line printed
    created,        \* how many times create_pr was entered
    confirmed,      \* review_config has returned True in this run
    action,         \* main()'s local action: the label of the menu row picked last
    call,           \* unit runs: the function called and its arguments
    ret             \* unit runs: its return value

vars == <<pc, params, options, current_branch, commands, errors, prompts,
          printed, created, confirmed, action, call, ret>>

progVars == <<pc, params, options, current_branch, commands, errors, prompts,
              printed, created, confirmed, action>>

\* Python's None for an Optional[str]: a string no input of the model equals
None == "<None>"

\* list.index raising ValueError
ValueError == -1

\* unit runs: the function has not returned yet / has returned value
Pending == [done |-> FALSE]

Returned(value) == [done |-> TRUE, value |-> value]

(***************************************************************************)
(* Python str methods                                                      *)
(***************************************************************************)
Lower == {"a","b","c","d","e","f","g","h","i","j","k","l","m",
          "n","o","p","q","r","s","t","u","v","w","x","y","z"}

Digit == {"0","1","2","3","4","5","6","7","8","9"}

Whitespace == {" ", "\t", "\n", "\r"}

\* the characters of the model's inputs in code-point order
CodePoints == "\t\n\r !\"()-./0123456789:>@ABCDEFGHIJKLMNOPQRSTUVWXYZ[]_abcdefghijklmnopqrstuvwxyz"

CharAt(s, i) == SubSeq(s, i, i)

startswith(s, prefix) ==
    Len(s) >= Len(prefix) /\ SubSeq(s, 1, Len(prefix)) = prefix

endswith(s, suffix) ==
    Len(s) >= Len(suffix) /\ SubSeq(s, Len(s) - Len(suffix) + 1, Len(s)) = suffix

\* str.find from position start (1-based); 0 when absent
find(s, sub, start) ==
    LET hits == {i \in start..(Len(s) - Len(sub) + 1) : SubSeq(s, i, i + Len(sub) - 1) = sub}
    IN  IF hits = {} THEN 0 ELSE CHOOSE i \in hits : \A j \in hits : i <= j

ord(c) == find(CodePoints, c, 1)

\* str.replace(old, new, count); count = -1 replaces every occurrence
RECURSIVE replace(_, _, _, _)
replace(s, old, new, count) ==
    LET i == find(s, old, 1)
    IN  IF count = 0 \/ i = 0 THEN s
        ELSE SubSeq(s, 1, i - 1) \o new
             \o replace(SubSeq(s, i + Len(old), Len(s)), old, new,
                        IF count < 0 THEN count ELSE count - 1)

\* str.strip()
strip(s) ==
    LET keep == {i \in 1..Len(s) : CharAt(s, i) \notin Whitespace}
    IN  IF keep = {} THEN ""
        ELSE SubSeq(s, CHOOSE i \in keep : \A j \in keep : i <= j,
                       CHOOSE i \in keep : \A j \in keep : i >= j)

\* str.split(sep): the pieces between the occurrences of sep
RECURSIVE split(_, _)
split(s, sep) ==
    LET i == find(s, sep, 1)
    IN  IF i = 0 THEN <<s>>
        ELSE <<SubSeq(s, 1, i - 1)>> \o split(SubSeq(s, i + Len(sep), Len(s)), sep)

\* a < b in Python's string order (code points, then length)
RECURSIVE str_lt(_, _)
str_lt(a, b) ==
    IF b = "" THEN FALSE
    ELSE IF a = "" THEN TRUE
    ELSE IF Head(a) = Head(b) THEN str_lt(Tail(a), Tail(b))
    ELSE ord(Head(a)) < ord(Head(b))

\* sorted(list): stable insertion sort in string order
RECURSIVE sorted(_)
sorted(list) ==
    IF list = <<>> THEN <<>>
    ELSE LET rest == sorted(SubSeq(list, 1, Len(list) - 1))
             x    == list[Len(list)]
             k    == Cardinality({i \in 1..Len(rest) : ~str_lt(x, rest[i])})
         IN  SubSeq(rest, 1, k) \o <<x>> \o SubSeq(rest, k + 1, Len(rest))

(***************************************************************************)
(* is_valid_target_branch                                                  *)
(***************************************************************************)
\* re.match(r'([a-z]+)(\d+)', s): group(1) when the pattern matches at the
\* start of s, None otherwise.  [a-z]+ is greedy; giving a letter back never
\* helps because the next character would be a letter, not a digit.
re_match_env(s) ==
    LET stops == {i \in 1..(Len(s) + 1) : i = Len(s) + 1 \/ CharAt(s, i) \notin Lower}
        stop  == CHOOSE i \in stops : \A j \in stops : i <= j
    IN  IF stop >= 2 /\ stop <= Len(s) /\ CharAt(s, stop) \in Digit
        THEN SubSeq(s, 1, stop - 1)
        ELSE None

env_order == <<"sbx", "dev", "uat">>

\* list.index: the first position holding x (0-based), or ValueError
index(list, x) ==
    LET at == {i \in 1..Len(list) : list[i] = x}
    IN  IF at = {} THEN ValueError ELSE (CHOOSE i \in at : \A j \in at : i <= j) - 1

is_valid_target_branch_ge(source, target) ==
    LET source_env == re_match_env(source)
        target_env == re_match_env(target)
    IN  IF source_env = None \/ target_env = None THEN TRUE
        ELSE LET source_idx == index(env_order, source_env)
                 target_idx == index(env_order, target_env)
             IN  IF source_idx = ValueError \/ target_idx = ValueError THEN TRUE
                 ELSE target_idx >= source_idx

is_valid_target_branch(source, target) ==
    LET source_env == re_match_env(source)
        target_env == re_match_env(target)
    IN  IF source_env = None \/ target_env = None THEN TRUE
        ELSE LET source_idx == index(env_order, source_env)
                 target_idx == index(env_order, target_env)
             IN  IF source_idx = ValueError \/ target_idx = ValueError THEN TRUE
                 ELSE target_idx > source_idx

(***************************************************************************)
(* Running git                                                             *)
(***************************************************************************)
\* What subprocess.run does with one command: the process exits 0 ("exit0",
\* text is its stdout), exits non-zero ("nonzero", check=True raises
\* CalledProcessError, text is its stderr), or cannot be started ("oserror",
\* subprocess.run raises FileNotFoundError or another OSError).
Run(kind, text) == [kind |-> kind, text |-> text]

\* only CalledProcessError is caught; any other exception leaves the function
execute_git_command(run) ==
    IF run.kind = "exit0"
    THEN [raised |-> FALSE, success |-> TRUE, output |-> strip(run.text)]
    ELSE IF run.kind = "nonzero"
    THEN [raised |-> FALSE, success |-> FALSE, output |-> strip(run.text)]
    ELSE [raised |-> TRUE, success |-> FALSE, output |-> ""]

get_current_branch(run) ==
    LET r == execute_git_command(run)
    IN  [raised |-> r.raised, value |-> IF r.success THEN r.output ELSE ""]

\* the loop body of get_remote_branches over the lines from position i on
RECURSIVE clean_branches(_, _)
clean_branches(lines, i) ==
    IF i > Len(lines) THEN <<>>
    ELSE LET branch == strip(lines[i])
         IN  (IF branch # "" /\ ~startswith(branch, "origin/HEAD")
              THEN <<replace(branch, "origin/", "", 1)>>
              ELSE <<>>)
             \o clean_branches(lines, i + 1)

get_remote_branches(run) ==
    LET r == execute_git_command(run)
    IN  [raised |-> r.raised,
         value  |-> IF ~r.success THEN <<>>
                    ELSE sorted(clean_branches(split(r.output, "\n"), 1))]

get_bitbucket_url(run) ==
    LET r == execute_git_command(run)
    IN  [raised |-> r.raised, value |-> IF ~r.success THEN "" ELSE strip(r.output)]

\* create_pr's rewrite of a non-empty remote URL
normalize_url(repo_url) ==
    LET https == IF startswith(repo_url, "git@")
                 THEN replace(replace(repo_url, ":", "/", -1), "git@", "https://", -1)
                 ELSE repo_url
    IN  IF endswith(https, ".git") THEN SubSeq(https, 1, Len(https) - 4) ELSE https

(***************************************************************************)
(* GitConfig, the menu and the review                                      *)
(***************************************************************************)
\* GitConfig.options in insertion order
option_keys == <<"source_branch", "target_branch", "commit_message", "pr_title", "pr_description">>

GitConfig == [k \in {option_keys[i] : i \in 1..Len(option_keys)} |-> ""]

update_option(opts, key, value) == [opts EXCEPT ![key] = value]

menu_options ==
    << <<"Source Branch (current)", "source_branch">>,
       <<"Target Branch", "target_branch">>,
       <<"Commit Message", "commit_message">>,
       <<"PR Title", "pr_title">>,
       <<"PR Description", "pr_description">> >>

\* f"{display:<{width}}"
RECURSIVE ljust(_, _)
ljust(s, width) == IF Len(s) >= width THEN s ELSE ljust(s \o " ", width)

\* the choices get_menu_choices offers
get_menu_choices(opts) ==
    LET lens       == {Len(menu_options[i][1]) : i \in 1..Len(menu_options)}
        max_length == (CHOOSE n \in lens : \A m \in lens : n >= m) + 2
    IN  [i \in 1..Len(menu_options) |->
            ljust(menu_options[i][1], max_length) \o " : [" \o opts[menu_options[i][2]] \o "]"]
        \o <<"Review and Create PR", "Exit">>

\* main()'s reading of the picked choice
action_of(choice) == strip(split(choice, " : [")[1])

option_mapping ==
    [a \in {"Target Branch", "Commit Message", "PR Title", "PR Description"} |->
        IF a = "Target Branch" THEN <<"target_branch", "Select target branch">>
        ELSE IF a = "Commit Message" THEN <<"commit_message", "Enter commit message">>
        ELSE IF a = "PR Title" THEN <<"pr_title", "Enter PR title">>
        ELSE <<"pr_description", "Enter PR description">>]

\* handle_branch_choice's valid_branches
RECURSIVE valid_branches(_, _, _)
valid_branches(current, available, i) ==
    IF i > Len(available) THEN <<>>
    ELSE (IF is_valid_target_branch(current, available[i]) THEN <<available[i]>> ELSE <<>>)
         \o valid_branches(current, available, i + 1)

script_name == "script.py"

\* review_config's command_parts, joined, over the keys from position i on
RECURSIVE command_parts(_, _)
command_parts(opts, i) ==
    IF i > Len(option_keys) THEN <<>>
    ELSE LET key   == option_keys[i]
             value == opts[key]
         IN  (IF value # ""
              THEN <<"--" \o replace(key, "_", "-", -1) \o " \"" \o value \o "\"">>
              ELSE <<>>)
             \o command_parts(opts, i + 1)

\* " ".join(parts)
RECURSIVE join(_, _)
join(sep, parts) ==
    IF parts = <<>> THEN ""
    ELSE IF Len(parts) = 1 THEN parts[1]
    ELSE parts[1] \o sep \o join(sep, Tail(parts))

review_command(opts) ==
    "python " \o script_name \o " " \o join(" ", command_parts(opts, 1)) \o " --no-interactive"

\* review_config's return value for the answer picked
review_result(answer) == startswith(answer, "Yes")

(***************************************************************************)
(* The command line, as click reads it                                     *)
(***************************************************************************)
\* the non-empty pieces of a list of strings
RECURSIVE non_empty(_)
non_empty(list) ==
    IF list = <<>> THEN <<>>
    ELSE (IF Head(list) = "" THEN <<>> ELSE <<Head(list)>>) \o non_empty(Tail(list))

\* the words a shell makes of a command line whose values are in double
\* quotes: pieces[i] is outside the quotes for odd i and inside them for even i
RECURSIVE shell_words(_, _)
shell_words(pieces, i) ==
    IF i > Len(pieces) THEN <<>>
    ELSE (IF i % 2 = 1 THEN non_empty(split(pieces[i], " ")) ELSE <<pieces[i]>>)
         \o shell_words(pieces, i + 1)

\* the defaults of main()'s parameters
default_params ==
    [target_branch |-> None, commit_message |-> None, pr_title |-> None,
     pr_description |-> None, interactive |-> TRUE]

\* the options declared with @click.option: click names the parameter of
\* --some-name some_name; an undeclared option is a usage error
RECURSIVE click_parse(_, _, _)
click_parse(args, i, p) ==
    IF i > Len(args) THEN [ok |-> TRUE, params |-> p]
    ELSE IF args[i] = "--interactive"
    THEN click_parse(args, i + 1, [p EXCEPT !.interactive = TRUE])
    ELSE IF args[i] = "--no-interactive"
    THEN click_parse(args, i + 1, [p EXCEPT !.interactive = FALSE])
    ELSE LET name == replace(SubSeq(args[i], 3, Len(args[i])), "-", "_", -1)
         IN  IF /\ startswith(args[i], "--")
                /\ name \in {"target_branch", "commit_message", "pr_title", "pr_description"}
                /\ i + 1 <= Len(args)
             THEN click_parse(args, i + 2, [p EXCEPT ![name] = args[i + 1]])
             ELSE [ok |-> FALSE, params |-> p]

\* running `python <script> <arguments>`: what main() is called with
command_line(command) ==
    LET words == shell_words(split(command, "\""), 1)
    IN  click_parse(words, 3, default_params)

(***************************************************************************)
(* main()                                                                  *)
(***************************************************************************)
\* lines 239-248 with pr_description never copied
bind_flags_drop_description(opts, p) ==
    LET set(o, key) == IF p[key] # None /\ p[key] # "" THEN update_option(o, key, p[key]) ELSE o
    IN  set(set(set(opts, "target_branch"), "commit_message"), "pr_title")

\* the non-interactive branch of main(): each truthy parameter is stored
bind_flags(opts, p) ==
    LET set(o, key) == IF p[key] # None /\ p[key] # "" THEN update_option(o, key, p[key]) ELSE o
    IN  set(set(set(set(opts, "target_branch"), "commit_message"), "pr_title"), "pr_description")

\* what git may do with each command
CurrentBranchRuns ==
    {Run("exit0", "dev1\n"), Run("exit0", "feature-x\n"), Run("exit0", ""),
     Run("nonzero", "fatal: not a git repository\n"), Run("oserror", "")}

RemoteBranchRuns ==
    {Run("exit0", "  origin/HEAD -> origin/main\n  origin/dev1\n  origin/uat2\n"),
     Run("exit0", "  origin/sbx1\n"),
     Run("nonzero", "fatal: not a git repository\n"), Run("oserror", "")}

StepRuns == {Run("exit0", ""), Run("nonzero", "fatal: failed\n"), Run("oserror", "")}

UrlRuns ==
    {Run("exit0", "git@example.com:team/repo.git\n"),
     Run("exit0", "https://example.com/team/repo\n"),
     Run("exit0", ""), Run("nonzero", ""), Run("oserror", "")}

\* what the user may type into a text prompt
TextInputs == {"", "fix", "a : [b"}

\* the parameters click hands to main(): every combination of the flags
\* without the menu, no flag or every flag with it
AllParams ==
    [target_branch : {None, "", "uat1"}, commit_message : {None, "", "fix"},
     pr_title : {None, "", "t"}, pr_description : {None, "", "d"},
     interactive : BOOLEAN]

Params ==
    {p \in AllParams :
        p.interactive =>
            \/ \A k \in {"target_branch", "commit_message", "pr_title", "pr_description"} : p[k] = None
            \/ \A k \in {"target_branch", "commit_message", "pr_title", "pr_description"} :
                  p[k] \notin {None, ""}}

\* prompts one run may show
MaxPrompts == 4

Ran(cmd, run) == [cmd |-> cmd, kind |-> run.kind, text |-> run.text]

Init ==
    /\ pc = "main"
    /\ params \in Params
    /\ options = GitConfig
    /\ current_branch = ""
    /\ commands = <<>>
    /\ errors = <<>>
    /\ prompts = 0
    /\ printed = ""
    /\ created = 0
    /\ confirmed = FALSE
    /\ action = ""
    /\ call = None
    /\ ret = Pending

\* main() from its entry to the menu loop or to the call of create_pr
Main ==
    /\ pc = "main"
    /\ \E run \in CurrentBranchRuns :
         LET r == get_current_branch(run)
         IN  /\ commands' = Append(commands, Ran("branch --show-current", run))
             /\ IF r.raised
                THEN /\ pc' = "raised"
                     /\ UNCHANGED <<options, current_branch, errors, created>>
                ELSE IF r.value = ""
                THEN /\ errors' = Append(errors, "Error: Could not determine current branch")
                     /\ pc' = "done"
                     /\ UNCHANGED <<options, current_branch, created>>
                ELSE /\ current_branch' = r.value
                     /\ UNCHANGED errors
                     /\ IF ~params.interactive
                        THEN /\ options' = bind_flags(update_option(options, "source_branch", r.value), params)
                             /\ created' = created + 1
                             /\ pc' = "add"
                        ELSE /\ options' = update_option(options, "source_branch", r.value)
                             /\ pc' = "menu"
                             /\ UNCHANGED created
    /\ UNCHANGED <<params, prompts, printed, confirmed, action, call, ret>>

\* one pass of the loop in which the picked row is the branch row of option_mapping
Menu_Branch ==
    /\ pc = "menu"
    /\ prompts < MaxPrompts
    /\ \E choice \in {get_menu_choices(options)[i] : i \in 1..7}, run \in RemoteBranchRuns :
         LET a     == action_of(choice)
             key   == option_mapping[a][1]
             r     == get_remote_branches(run)
             valid == valid_branches(current_branch, r.value, 1)
         IN  /\ a \in DOMAIN option_mapping
             /\ find(key, "branch", 1) > 0
             /\ action' = a
             /\ commands' = Append(commands, Ran("branch -r", run))
             /\ IF r.raised
                THEN /\ pc' = "raised"
                     /\ prompts' = prompts + 1
                     /\ UNCHANGED <<options, errors>>
                ELSE IF valid = <<>>
                THEN /\ errors' = Append(errors, "No valid target branches found!")
                     /\ options' = update_option(options, key, "")
                     /\ prompts' = prompts + 1
                     /\ pc' = "menu"
                ELSE /\ \E i \in 1..Len(valid) : options' = update_option(options, key, valid[i])
                     /\ prompts' = prompts + 2
                     /\ pc' = "menu"
                     /\ UNCHANGED errors
    /\ UNCHANGED <<params, current_branch, printed, created, confirmed, call, ret>>

\* one pass of the loop in which the picked row is a text row of option_mapping
Menu_Text ==
    /\ pc = "menu"
    /\ prompts < MaxPrompts
    /\ \E choice \in {get_menu_choices(options)[i] : i \in 1..7}, value \in TextInputs :
         LET a   == action_of(choice)
             key == option_mapping[a][1]
         IN  /\ a \in DOMAIN option_mapping
             /\ find(key, "branch", 1) = 0
             /\ action' = a
             /\ options' = update_option(options, key, value)
    /\ prompts' = prompts + 2
    /\ UNCHANGED <<pc, params, current_branch, commands, errors, printed, created,
                   confirmed, call, ret>>

\* 'Review and Create PR' is picked: review_config prints and asks
Menu_Review ==
    /\ pc = "menu"
    /\ prompts < MaxPrompts
    /\ \E choice \in {get_menu_choices(options)[i] : i \in 1..7} :
         LET a == action_of(choice)
         IN  /\ a \notin DOMAIN option_mapping
             /\ a = "Review and Create PR"
             /\ action' = a
    /\ printed' = review_command(options)
    /\ prompts' = prompts + 1
    /\ pc' = "review"
    /\ UNCHANGED <<params, options, current_branch, commands, errors, created,
                   confirmed, call, ret>>

\* the loop calling create_pr whatever review_config returned
Review_Answer_unchecked ==
    /\ pc = "review"
    /\ \E answer \in {"Yes, create PR", "No, return to menu"} :
         /\ confirmed' = (confirmed \/ review_result(answer))
         /\ created' = created + 1
         /\ pc' = "add"
    /\ prompts' = prompts + 1
    /\ UNCHANGED <<params, options, current_branch, commands, errors, printed,
                   action, call, ret>>

\* the answer to review_config's question, and what the loop does with it
Review_Answer ==
    /\ pc = "review"
    /\ \E answer \in {"Yes, create PR", "No, return to menu"} :
         IF review_result(answer)
         THEN /\ confirmed' = TRUE
              /\ created' = created + 1
              /\ pc' = "add"
         ELSE /\ pc' = "menu"
              /\ UNCHANGED <<confirmed, created>>
    /\ prompts' = prompts + 1
    /\ UNCHANGED <<params, options, current_branch, commands, errors, printed,
                   action, call, ret>>

\* the else branch of the loop: any other row ends the loop
Menu_Exit ==
    /\ pc = "menu"
    /\ prompts < MaxPrompts
    /\ \E choice \in {get_menu_choices(options)[i] : i \in 1..7} :
         LET a == action_of(choice)
         IN  /\ a \notin DOMAIN option_mapping
             /\ a # "Review and Create PR"
             /\ action' = a
    /\ prompts' = prompts + 1
    /\ pc' = "done"
    /\ UNCHANGED <<params, options, current_branch, commands, errors, printed,
                   created, confirmed, call, ret>>

(***************************************************************************)
(* create_pr, one git command at a time                                    *)
(***************************************************************************)
\* one of the three gated commands of create_pr
Step(at, cmd, label, next) ==
    /\ pc = at
    /\ \E run \in StepRuns :
         LET r == execute_git_command(run)
         IN  /\ commands' = Append(commands, Ran(cmd, run))
             /\ IF r.raised
                THEN pc' = "raised" /\ UNCHANGED errors
                ELSE IF ~r.success
                THEN /\ errors' = Append(errors, label \o ": " \o r.output)
                     /\ pc' = "done"
                ELSE pc' = next /\ UNCHANGED errors
    /\ UNCHANGED <<params, options, current_branch, prompts, printed, created,
                   confirmed, action, call, ret>>

Create_add == Step("add", "add .", "Error staging changes", "commit")

Create_commit == Step("commit", "commit -m", "Error creating commit", "push")

Create_push == Step("push", "push origin", "Error pushing changes", "url")

\* the rest of create_pr: read the remote URL and print the instructions
Create_url ==
    /\ pc = "url"
    /\ \E run \in UrlRuns :
         LET r == get_bitbucket_url(run)
         IN  /\ commands' = Append(commands, Ran("config --get remote.origin.url", run))
             /\ IF r.raised
                THEN pc' = "raised" /\ UNCHANGED <<errors, printed>>
                ELSE IF r.value # ""
                THEN /\ printed' = "URL: " \o normalize_url(r.value) \o "/pull-requests/new"
                     /\ pc' = "done"
                     /\ UNCHANGED errors
                ELSE /\ errors' = Append(errors, "Could not determine repository URL")
                     /\ pc' = "done"
                     /\ UNCHANGED printed
    /\ UNCHANGED <<params, options, current_branch, prompts, created, confirmed,
                   action, call, ret>>

Next ==
    \/ Main
    \/ Menu_Branch
    \/ Menu_Text
    \/ Menu_Review
    \/ Review_Answer
    \/ Menu_Exit
    \/ Create_add
    \/ Create_commit
    \/ Create_push
    \/ Create_url

Spec == Init /\ [][Next]_vars

(***************************************************************************)
(* Claims about the program                                                *)
(***************************************************************************)
\* the commands of create_pr, in the order of its steps
ExecutorSteps == <<"add .", "commit -m", "push origin", "config --get remote.origin.url">>

ExecutorErrors ==
    {"Error staging changes", "Error creating commit", "Error pushing changes",
     "Could not determine repository URL"}

IsExecutorCommand(c) == \E k \in 1..Len(ExecutorSteps) : c.cmd = ExecutorSteps[k]

IsExecutorError(e) == \E l \in ExecutorErrors : startswith(e, l)

Ended == pc \in {"done", "raised"}

\* C1: create_pr attempts stage, commit, push, read-URL in that order, a step
\* only after every earlier step succeeded, and a failed step is followed by
\* no later step and by exactly one error message.
C1_ExecutorShortCircuits ==
    LET ex == SelectSeq(commands, IsExecutorCommand)
    IN  /\ Len(ex) <= Len(ExecutorSteps)
        /\ \A k \in 1..Len(ex) : ex[k].cmd = ExecutorSteps[k]
        /\ \A k \in 1..(Len(ex) - 1) : ex[k].kind = "exit0"
        /\ (Ended /\ \E k \in 1..Len(ex) : ex[k].kind # "exit0")
             => Len(SelectSeq(errors, IsExecutorError)) = 1

\* git answered the first command with a branch name
BranchDetermined ==
    /\ commands # <<>>
    /\ commands[1].kind = "exit0"
    /\ strip(commands[1].text) # ""

\* C4: without the menu and with the current branch known, when create_pr is
\* entered source_branch is the current branch, every other field is its
\* flag's value or empty when the flag was not given, create_pr is entered
\* exactly once and no prompt is shown before or after.
C4_NonInteractiveBinding ==
    (~params.interactive /\ pc # "main" /\ BranchDetermined)
    => /\ created = 1
       /\ prompts = 0
       /\ options.source_branch = strip(commands[1].text)
       /\ \A k \in {"target_branch", "commit_message", "pr_title", "pr_description"} :
            options[k] = IF params[k] = None THEN "" ELSE params[k]

\* create_pr has been entered with only --commit-message and --pr-description given
C4_Witness ==
    /\ ~params.interactive
    /\ pc = "add"
    /\ params.target_branch = None
    /\ params.commit_message = "fix"
    /\ params.pr_description = "d"
    /\ options.commit_message = "fix"
    /\ options.pr_description = "d"
    /\ options.source_branch = "dev1"

\* C7: the menu loop ends only on 'Exit' (or through a confirmed review);
\* picking any of the five field rows returns to the menu.
C7_LoopEndsOnlyOnExit ==
    [][(pc = "menu" /\ pc' = "done") => action' = "Exit"]_vars

\* C8: no failure of a git command is raised: the run never ends in an
\* exception, and a failed branch query leaves the branch empty and the
\* program printing its own message.
C8_FailuresAreValues ==
    /\ pc # "raised"
    /\ (pc # "main" /\ commands # <<>> /\ commands[1].kind # "exit0")
         => /\ current_branch = ""
            /\ errors = <<"Error: Could not determine current branch">>

\* C9: the command review_config prints uses only options the command line
\* accepts, and run without the menu on the same branch it gives the options
\* that were reviewed.
C9_ReviewRoundTrip ==
    pc = "review"
    => LET parsed == command_line(printed)
       IN  /\ parsed.ok
           /\ ~parsed.params.interactive
           /\ bind_flags(update_option(GitConfig, "source_branch", current_branch),
                         parsed.params) = options

IssuedGitWrite == \E i \in 1..Len(commands) : commands[i].cmd \in {"add .", "commit -m", "push origin"}

\* C10: with the menu, nothing is staged, committed or pushed unless the
\* review was confirmed in this run; create_pr is entered at most once; a run
\* ended by 'Exit' or by an unknown current branch runs none of the three.
C10_NoWriteWithoutConfirmation ==
    /\ created <= 1
    /\ (params.interactive /\ IssuedGitWrite) => confirmed
    /\ (pc = "done" /\ action = "Exit") => ~IssuedGitWrite
    /\ (\E i \in 1..Len(errors) : errors[i] = "Error: Could not determine current branch")
         => ~IssuedGitWrite

\* after a declined and then a confirmed review the branch has been pushed
C10_Witness ==
    /\ params.interactive
    /\ confirmed
    /\ prompts >= 4
    /\ pc = "url"
    /\ IssuedGitWrite

(***************************************************************************)
(* Unit runs: one call of one function on inputs drawn from bounded sets   *)
(***************************************************************************)
\* the program itself is not running during a unit run
Idle ==
    /\ pc = "idle"
    /\ params = None
    /\ options = GitConfig
    /\ current_branch = ""
    /\ commands = <<>>
    /\ errors = <<>>
    /\ prompts = 0
    /\ printed = ""
    /\ created = 0
    /\ confirmed = FALSE
    /\ action = ""

\* the strings made of exactly n of the given pieces
RECURSIVE Words(_, _)
Words(pieces, n) ==
    IF n = 0 THEN {""}
    ELSE {w \o p : w \in Words(pieces, n - 1), p \in pieces}

WordsUpTo(pieces, n) == UNION {Words(pieces, k) : k \in 0..n}

\* branch names: environment prefixes, an unknown prefix, a digit, a separator
BranchPieces == {"sbx", "dev", "uat", "qa", "1", "-"}

\* pieces in the two branch names of one call, together
MaxPieces == 5

InitValidator ==
    /\ Idle
    /\ \E n \in 0..MaxPieces :
         \E s \in Words(BranchPieces, n) :
           \E t \in WordsUpTo(BranchPieces, MaxPieces - n) :
             call = [fn |-> "is_valid_target_branch", source |-> s, target |-> t]
    /\ ret = Pending

Call_is_valid_target_branch ==
    /\ call.fn = "is_valid_target_branch"
    /\ ~ret.done
    /\ ret' = Returned(is_valid_target_branch(call.source, call.target))
    /\ UNCHANGED <<progVars, call>>

NextValidator == Call_is_valid_target_branch

SpecValidator == InitValidator /\ [][NextValidator]_vars

(***************************************************************************)
(* Claims about is_valid_target_branch                                     *)
(***************************************************************************)
\* where the letters of a name that is letters followed by digits end; 0 when
\* the name as a whole is not of that shape
ShapeSplit(s) ==
    LET ks == {k \in 1..(Len(s) - 1) :
                 /\ \A i \in 1..k : CharAt(s, i) \in Lower
                 /\ \A i \in (k + 1)..Len(s) : CharAt(s, i) \in Digit}
    IN  IF ks = {} THEN 0 ELSE CHOOSE k \in ks : TRUE

EnvShaped(s) == ShapeSplit(s) > 0

\* the stage of a shaped name in sbx < dev < uat; 0 for an unknown prefix
Stage(s) ==
    LET prefix == SubSeq(s, 1, ShapeSplit(s))
    IN  IF prefix = "sbx" THEN 1
        ELSE IF prefix = "dev" THEN 2
        ELSE IF prefix = "uat" THEN 3
        ELSE 0

ValidatorReturned == call.fn = "is_valid_target_branch" /\ ret.done

\* C2: for two names that are each lowercase letters followed by digits, the
\* validator returns false exactly when both prefixes are in [sbx, dev, uat]
\* and the target's index is not strictly greater than the source's; it
\* returns true for every forward move and when a prefix is not in the table.
C2_ShapedPairs ==
    (ValidatorReturned /\ EnvShaped(call.source) /\ EnvShaped(call.target))
    => (ret.value = FALSE
        <=> /\ Stage(call.source) > 0
            /\ Stage(call.target) > 0
            /\ Stage(call.target) <= Stage(call.source))

\* a same-stage move between two shaped names has been rejected
C2_Witness ==
    /\ ValidatorReturned
    /\ call.source = "dev1"
    /\ call.target = "dev11"
    /\ ret.value = FALSE

\* C3: the validator returns true whenever at least one of the two names is
\* not, as a whole, lowercase letters followed by digits.
C3_UnshapedAllowed ==
    (ValidatorReturned /\ (~EnvShaped(call.source) \/ ~EnvShaped(call.target)))
    => ret.value = TRUE

(***************************************************************************)
(* Unit run of get_remote_branches                                         *)
(***************************************************************************)
\* what `git branch -r` may print: remote prefixes, the symbolic HEAD line of
\* two remotes, branch names, blanks and line ends
ListingPieces ==
    {"origin/", "upstream/", "origin/HEAD -> origin/main",
     "upstream/HEAD -> upstream/main", "dev1", "uat2", " ", "\n"}

\* pieces in one listing
MaxListingPieces == 4

InitBranches ==
    /\ Idle
    /\ \E run \in {Run("exit0", w) : w \in WordsUpTo(ListingPieces, MaxListingPieces)}
                  \cup {Run("nonzero", "fatal: not a git repository\n"), Run("oserror", "")} :
         call = [fn |-> "get_remote_branches", run |-> run]
    /\ ret = Pending

Call_get_remote_branches ==
    /\ call.fn = "get_remote_branches"
    /\ ~ret.done
    /\ ret' = Returned(get_remote_branches(call.run))
    /\ UNCHANGED <<progVars, call>>

NextBranches == Call_get_remote_branches

SpecBranches == InitBranches /\ [][NextBranches]_vars

ReferencesHead(line) == find(line, "HEAD", 1) > 0

IsBranchLine(line) == strip(line) # "" /\ ~ReferencesHead(line)

\* a line trimmed, without a leading origin/
BranchNameOf(line) ==
    LET name == strip(line)
    IN  IF startswith(name, "origin/") THEN SubSeq(name, Len("origin/") + 1, Len(name)) ELSE name

Ascending(list) == \A i \in 1..(Len(list) - 1) : ~str_lt(list[i + 1], list[i])

\* how often x occurs in list
Count(list, x) == Cardinality({i \in 1..Len(list) : list[i] = x})

\* C6: the result holds one name per line that does not reference HEAD, each
\* trimmed and without a leading origin/, every line referencing HEAD (of any
\* remote) dropped, in ascending order; a failed command gives the empty list.
C6_ParsedBranches ==
    (call.fn = "get_remote_branches" /\ ret.done /\ ~ret.value.raised)
    => LET lines  == SelectSeq(split(call.run.text, "\n"), IsBranchLine)
           names  == [i \in 1..Len(lines) |-> BranchNameOf(lines[i])]
           result == ret.value.value
       IN  IF call.run.kind # "exit0" THEN result = <<>>
           ELSE /\ Len(result) = Len(names)
                /\ \A i \in 1..Len(names) : Count(result, names[i]) = Count(names, names[i])
                /\ \A i \in 1..Len(result) : ~ReferencesHead(result[i])
                /\ Ascending(result)

(***************************************************************************)
(* Unit run of the URL rewrite of create_pr                                *)
(***************************************************************************)
UrlPieces == {"git@", "https://", "host", ":", "/", "repo", ".git"}

\* pieces in one remote URL
MaxUrlPieces == 4

InitUrl ==
    /\ Idle
    /\ \E u \in WordsUpTo(UrlPieces, MaxUrlPieces) \ {""} :
         call = [fn |-> "normalize_url", repo_url |-> u]
    /\ ret = Pending

Call_normalize_url ==
    /\ call.fn = "normalize_url"
    /\ ~ret.done
    /\ ret' = Returned(normalize_url(call.repo_url))
    /\ UNCHANGED <<progVars, call>>

NextUrl == Call_normalize_url

SpecUrl == InitUrl /\ [][NextUrl]_vars

\* the rewrite as stated: git@ becomes https://, the first colon after it a
\* slash, everything else kept; then one trailing .git goes
StatedUrl(u) ==
    LET https == IF startswith(u, "git@")
                 THEN "https://" \o replace(SubSeq(u, Len("git@") + 1, Len(u)), ":", "/", 1)
                 ELSE u
    IN  IF endswith(https, ".git") THEN SubSeq(https, 1, Len(https) - Len(".git")) ELSE https

\* C5: a URL beginning with git@ becomes https:// plus the rest with only the
\* first colon turned into a slash; a trailing .git is stripped; any other URL
\* not ending in .git is unchanged.
C5_UrlRewrite ==
    (call.fn = "normalize_url" /\ ret.done) => ret.value = StatedUrl(call.repo_url)

====
